---------------------------- MODULE Spec2Model ----------------------------
(***************************************************************************)
(* Account addressing and transaction authentication core of ic-aptos:     *)
(* AccountAddress codec (move-core-types), authenticators and the          *)
(* RawTransaction / SignedTransaction / SignatureCheckedTransaction        *)
(* envelope (aptos-types).                                                 *)
(***************************************************************************)
EXTENDS Integers, Sequences, FiniteSets, TLC

(***************************************************************************)
(* Bounds of the model.                                                    *)
(***************************************************************************)
NumKeys == 2        \* Ed25519 key pairs
NumObjs == 2        \* SignedTransaction values alive at once
NumThreads == 2     \* threads sharing one SignedTransaction
MaxTamper == 1      \* changes made to a signed triple before it is wrapped
MaxBody == 2        \* abstract bodies of a Script / EntryFunction payload
MaxLowByte == 40    \* sample addresses 0x0 .. MaxLowByte
MaxTextLen == 3     \* length of the short sample texts (after the prefix)

(***************************************************************************)
(* Option<T> and Result<T, E>.                                             *)
(***************************************************************************)
None == <<>>
Some(v) == <<v>>
IsSome(o) == Len(o) = 1
Unwrap(o) == o[1]

Ok(v) == [ok |-> TRUE, val |-> <<v>>, err |-> "-"]
Err(e) == [ok |-> FALSE, val |-> <<>>, err |-> e]
OkVal(r) == r.val[1]

\* the call did not return: the thread panicked (arithmetic overflow, a slice
\* index out of range or not on a character boundary, todo!())
Panic == [ok |-> FALSE, val |-> <<>>, err |-> "panic"]

(***************************************************************************)
(* AccountAddress: exactly LENGTH bytes.                                   *)
(***************************************************************************)
LENGTH == 32
Byte == 0..255

\* the address 0x00..0<b> (31 zero bytes, then b)
AddrLow(b) == [i \in 1..LENGTH |-> IF i = LENGTH THEN b ELSE 0]
\* the address <b>00..0 (b, then 31 zero bytes)
AddrHigh(b) == [i \in 1..LENGTH |-> IF i = 1 THEN b ELSE 0]

\* AccountAddress::MAX_ADDRESS
MAX_ADDRESS == [i \in 1..LENGTH |-> 255]

(***************************************************************************)
(* Text: a &str is the sequence of its UTF-8 bytes, an ASCII byte written  *)
(* as the one-character string, the two bytes of a non-ASCII character as  *)
(* "C3" and "A9".                                                          *)
(***************************************************************************)
LowerHexChars ==
    <<"0", "1", "2", "3", "4", "5", "6", "7", "8", "9",
      "a", "b", "c", "d", "e", "f">>
UpperHexChars ==
    <<"0", "1", "2", "3", "4", "5", "6", "7", "8", "9",
      "A", "B", "C", "D", "E", "F">>

HexValBad(c) ==
    IF \E i \in 1..16 : LowerHexChars[i] = c
    THEN LET i == CHOOSE j \in 1..16 : LowerHexChars[j] = c
         IN  IF i > 10 THEN i - 11 ELSE i - 1
    ELSE IF \E i \in 1..16 : UpperHexChars[i] = c
    THEN (CHOOSE i \in 1..16 : UpperHexChars[i] = c) - 1
    ELSE -1

\* hex crate, val(): the value of a hex digit of either case, -1 for any other
HexVal(c) ==
    IF \E i \in 1..16 : LowerHexChars[i] = c
    THEN (CHOOSE i \in 1..16 : LowerHexChars[i] = c) - 1
    ELSE IF \E i \in 1..16 : UpperHexChars[i] = c
    THEN (CHOOSE i \in 1..16 : UpperHexChars[i] = c) - 1
    ELSE -1

\* hex::encode: two lowercase digits per byte
HexEncode(bytes) ==
    [i \in 1..(2 * Len(bytes)) |->
        IF i % 2 = 1
        THEN LowerHexChars[(bytes[(i + 1) \div 2] \div 16) + 1]
        ELSE LowerHexChars[(bytes[i \div 2] % 16) + 1]]

\* str::starts_with("0x")
StartsWith0x(s) == Len(s) >= 2 /\ s[1] = "0" /\ s[2] = "x"

\* &s[2..]
Skip2(s) == SubSeq(s, 3, Len(s))

\* the second byte of a two-byte UTF-8 character
ContinuationBytes == {"A9"}
LeadBytes == {"C3"}

\* str::is_char_boundary
IsCharBoundary(s, n) ==
    \/ n = 0
    \/ n = Len(s)
    \/ n < Len(s) /\ s[n + 1] \notin ContinuationBytes

\* a &str holds well-formed UTF-8 only
IsStr(s) ==
    /\ \A i \in 1..Len(s) :
          s[i] \in LeadBytes => (i < Len(s) /\ s[i + 1] \in ContinuationBytes)
    /\ \A i \in 1..Len(s) :
          s[i] \in ContinuationBytes => (i > 1 /\ s[i - 1] \in LeadBytes)

\* str::trim_start_matches('0')
RECURSIVE TrimStartZeros(_)
TrimStartZeros(s) ==
    IF s # <<>> /\ Head(s) = "0" THEN TrimStartZeros(Tail(s)) ELSE s

Zeros(n) == [i \in 1..n |-> "0"]

(***************************************************************************)
(* AccountAddress codec (move-core-types/src/account_address.rs).          *)
(***************************************************************************)
IsSpecialBad(a) == (\A i \in 1..(LENGTH - 1) : a[i] = 0) /\ a[LENGTH] <= 16

\* AccountAddress::is_special
IsSpecial(a) == (\A i \in 1..(LENGTH - 1) : a[i] = 0) /\ a[LENGTH] < 16

\* AccountAddress::to_canonical_string
ToCanonicalString(a) == HexEncode(a)

ShortStrLosslessBad(a) == TrimStartZeros(HexEncode(a))

\* AccountAddress::short_str_lossless
ShortStrLossless(a) ==
    LET hex_str == TrimStartZeros(HexEncode(a))
    IN  IF hex_str = <<>> THEN <<"0">> ELSE hex_str

ToStandardStringBad(a) == <<"0", "x">> \o ShortStrLossless(a)

\* AccountAddress::to_standard_string
ToStandardString(a) ==
    LET suffix == IF IsSpecial(a) THEN ShortStrLossless(a)
                  ELSE ToCanonicalString(a)
    IN  <<"0", "x">> \o suffix

\* AccountAddress::from_hex: <[u8; LENGTH]>::from_hex, every error of the hex
\* crate (odd length, wrong length, bad digit) mapped to InvalidHexChars
FromHex(hex) ==
    IF Len(hex) % 2 # 0 THEN Err("InvalidHexChars")
    ELSE IF Len(hex) \div 2 # LENGTH THEN Err("InvalidHexChars")
    ELSE IF \E i \in 1..Len(hex) : HexVal(hex[i]) < 0
    THEN Err("InvalidHexChars")
    ELSE Ok([i \in 1..LENGTH |->
                HexVal(hex[2 * i - 1]) * 16 + HexVal(hex[2 * i])])

FromHexLiteralBad(literal) ==
    IF Len(literal) < 2 \/ ~IsCharBoundary(literal, 2) THEN Panic
    ELSE LET hex_len == Len(literal) - 2
         IN  IF hex_len < LENGTH * 2
             THEN FromHex(Zeros(LENGTH * 2 - hex_len) \o Skip2(literal))
             ELSE FromHex(Skip2(literal))

\* AccountAddress::from_hex_literal; literal.len() - 2 and &literal[2..] panic
\* on a literal shorter than two bytes or cut inside a character
FromHexLiteral(literal) ==
    IF ~StartsWith0x(literal) THEN Err("LeadingZeroXRequired")
    ELSE IF Len(literal) < 2 \/ ~IsCharBoundary(literal, 2) THEN Panic
    ELSE LET hex_len == Len(literal) - 2
         IN  IF hex_len < LENGTH * 2
             THEN FromHex(Zeros(LENGTH * 2 - hex_len) \o Skip2(literal))
             ELSE FromHex(Skip2(literal))

FromStrBad(s) ==
    IF ~StartsWith0x(s)
    THEN IF s = <<>> THEN Err("TooShort")
         ELSE FromHexLiteral(<<"0", "x">> \o s)
    ELSE FromHexLiteral(s)

\* impl FromStr for AccountAddress (relaxed parsing)
FromStr(s) ==
    IF ~StartsWith0x(s)
    THEN IF s = <<>> THEN Err("TooShort")
         ELSE FromHexLiteral(<<"0", "x">> \o s)
    ELSE IF Len(s) = 2 THEN Err("TooShort")
         ELSE FromHexLiteral(s)

FromStrStrictBad(s) ==
    IF ~StartsWith0x(s) THEN Err("LeadingZeroXRequired")
    ELSE LET address == FromStr(s)
         IN  IF ~address.ok THEN address
             ELSE IF Len(s) # (LENGTH * 2) + 2 /\ ~IsSpecial(OkVal(address))
             THEN Err("LongFormRequiredUnlessSpecial")
             ELSE address

\* AccountAddress::from_str_strict
FromStrStrict(s) ==
    IF ~StartsWith0x(s) THEN Err("LeadingZeroXRequired")
    ELSE LET address == FromStr(s)
         IN  IF ~address.ok THEN address
             ELSE IF Len(s) # (LENGTH * 2) + 2
             THEN IF ~IsSpecial(OkVal(address))
                  THEN Err("LongFormRequiredUnlessSpecial")
                  ELSE IF Len(s) # 3 THEN Err("InvalidPaddingZeroes")
                       ELSE address
             ELSE address

\* impl fmt::LowerHex for AccountAddress: "0x" under the alternate flag, then
\* every byte as {:02x}
LowerHexFmt(a, alternate) ==
    (IF alternate THEN <<"0", "x">> ELSE <<>>)
        \o [i \in 1..(2 * LENGTH) |->
               IF i % 2 = 1 THEN LowerHexChars[(a[(i + 1) \div 2] \div 16) + 1]
               ELSE LowerHexChars[(a[i \div 2] % 16) + 1]]

\* AccountAddress::to_hex: format!("{:x}", self)
ToHex(a) == LowerHexFmt(a, FALSE)

\* impl fmt::Display for AccountAddress
Display(a) == ToStandardString(a)

FromBytesBad(bytes) ==
    IF Len(bytes) # LENGTH THEN Err("InvalidHexChars")
    ELSE Ok([i \in 1..LENGTH |-> bytes[LENGTH + 1 - i]])

\* AccountAddress::from_bytes: <[u8; LENGTH]>::try_from(slice), its error
\* (TryFromSliceError) mapped to InvalidHexChars
FromBytes(bytes) ==
    IF Len(bytes) # LENGTH THEN Err("InvalidHexChars")
    ELSE Ok([i \in 1..LENGTH |-> bytes[i]])

\* impl TryFrom<&[u8]> / TryFrom<Vec<u8>> for AccountAddress
TryFromBytes(bytes) == FromBytes(bytes)

\* AccountAddress::to_vec
ToVec(a) == [i \in 1..LENGTH |-> a[i]]

\* impl Serialize for AccountAddress, human-readable serializer: the string
\* to_hex()
SerializeHuman(a) == ToHex(a)

\* impl Deserialize for AccountAddress, human-readable deserializer: from_str
\* of the string, the parse error wrapped by D::Error::custom
DeserializeHuman(s) == FromStr(s)

(***************************************************************************)
(* Ed25519 capability (aptos-crypto, external primitive): an ideal         *)
(* signature scheme.  A key pair is a number; a signature is the pair      *)
(* (signing key, signed message).                                          *)
(***************************************************************************)
Keys == 1..NumKeys
PublicKey(k) == [pk |-> k]
PublicKeys == {PublicKey(k) : k \in Keys}
Ed25519Sign(k, msg) == [signer |-> k, msg |-> msg]
Ed25519Verify(sig, msg, public_key) ==
    IF sig.signer = public_key.pk /\ sig.msg = msg
    THEN Ok("unit") ELSE Err("SignatureVerificationFailed")

(***************************************************************************)
(* RawTransaction (transaction/mod.rs).                                    *)
(***************************************************************************)
Senders == {AddrLow(1), AddrHigh(171)}
U64Values == {0, 7}
ChainIds == {1, 4}
Payloads ==
    [variant : {"Script", "EntryFunction"}, body : 1..MaxBody]
        \cup [variant : {"ModuleBundle"}, body : {0}]

RawTransactionNew(sender, sequence_number, payload, max_gas_amount, gas_unit_price, expiration_timestamp_secs, chain_id) ==
    [sender |-> sender,
     sequence_number |-> sequence_number,
     payload |-> payload,
     max_gas_amount |-> max_gas_amount,
     gas_unit_price |-> gas_unit_price,
     expiration_timestamp_secs |-> expiration_timestamp_secs,
     chain_id |-> chain_id]

RawFields == {"sender", "sequence_number", "payload", "max_gas_amount",
              "gas_unit_price", "expiration_timestamp_secs", "chain_id"}

FieldValues(f) ==
    CASE f = "sender" -> Senders
      [] f = "payload" -> Payloads
      [] f = "chain_id" -> ChainIds
      [] OTHER -> U64Values

BaseRaw ==
    RawTransactionNew(AddrLow(1), 0, [variant |-> "ModuleBundle", body |-> 0],
                      0, 0, 0, 1)

\* every RawTransaction that differs from BaseRaw in at most one field
RawTxns ==
    UNION {{[BaseRaw EXCEPT ![f] = v] : v \in FieldValues(f)} : f \in RawFields}

\* the RawTransactions wrapped into SignedTransaction values: two payloads of
\* different serialized size
ObjRawTxns ==
    {BaseRaw, [BaseRaw EXCEPT !.payload = [variant |-> "Script", body |-> 1]]}

(***************************************************************************)
(* Canonical (BCS) serialization: fields in declared order, enum variants  *)
(* tagged by index, #[serde(skip)] fields left out.  A serialized value is *)
(* the tuple of its parts; its size is the number of bytes BCS writes: 32  *)
(* for an AccountAddress, 8 for a u64, 1 for the ChainId, 1 for a variant  *)
(* index, 1 + n for a key or signature of n bytes.  The body of a Script   *)
(* or EntryFunction payload is abstract: p.body names it and is its size.  *)
(***************************************************************************)
ED25519_PUBLIC_KEY_LENGTH == 32
ED25519_SIGNATURE_LENGTH == 64

PayloadIndex(p) ==
    CASE p.variant = "Script" -> 0
      [] p.variant = "ModuleBundle" -> 1
      [] p.variant = "EntryFunction" -> 2

\* bytes of the value inside a TransactionPayload variant
PayloadBodySize(p) == IF p.variant = "ModuleBundle" THEN 8 ELSE p.body

SerializePayload(p) == <<PayloadIndex(p), p.body>>
PayloadSize(p) == 1 + PayloadBodySize(p)

SerializeRaw(raw) ==
    <<raw.sender, raw.sequence_number, SerializePayload(raw.payload),
      raw.max_gas_amount, raw.gas_unit_price, raw.expiration_timestamp_secs,
      raw.chain_id>>

SerializedSizeRaw(raw) ==
    LENGTH + 8 + PayloadSize(raw.payload) + 8 + 8 + 8 + 1

SerializeAuthenticator(auth) == <<0, auth.public_key, auth.signature>>

SerializedSizeAuthenticator(auth) ==
    1 + (1 + ED25519_PUBLIC_KEY_LENGTH) + (1 + ED25519_SIGNATURE_LENGTH)

\* CryptoHasher / BCSCryptoHash: hash of the type's seed and the BCS bytes
CryptoHash(type_name, bytes) == [seed |-> type_name, bytes |-> bytes]

\* the message an Ed25519 signature of a RawTransaction is made over
SigningMessage(raw) == CryptoHash("RawTransaction", SerializeRaw(raw))

Signatures == {Ed25519Sign(k, SigningMessage(r)) : k \in Keys, r \in RawTxns}

\* RawTransaction::signing_message: the body is todo!()
RawSigningMessage(raw) == Panic

(***************************************************************************)
(* Authenticators (transaction/authenticator.rs).                          *)
(***************************************************************************)
MAX_NUM_OF_SIGS == 32

AccountAuthenticatorEd25519(public_key, signature) ==
    [variant |-> "Ed25519", public_key |-> Some(public_key),
     signature |-> Some(signature)]

NoAccountAuthenticator ==
    [variant |-> "NoAccountAuthenticator", public_key |-> None,
     signature |-> None]

NumberOfSignaturesBad(account_auth) == MAX_NUM_OF_SIGS + 1

NumberOfSignatures(account_auth) ==
    IF account_auth.variant = "Ed25519" THEN 1 ELSE 0

TransactionAuthenticatorEd25519(public_key, signature) ==
    [variant |-> "Ed25519", public_key |-> public_key, signature |-> signature]

TAVerifyBad(auth, raw_txn) == Ok("unit")

\* TransactionAuthenticator::verify
TAVerify(auth, raw_txn) ==
    Ed25519Verify(auth.signature, SigningMessage(raw_txn), auth.public_key)

SenderBad(auth) == NoAccountAuthenticator

\* TransactionAuthenticator::sender
Sender(auth) == AccountAuthenticatorEd25519(auth.public_key, auth.signature)

\* sum of number_of_signatures() over the embedded AccountAuthenticators
TotalSignatures(auth) == NumberOfSignatures(Sender(auth))

(***************************************************************************)
(* SignedTransaction (transaction/mod.rs).  A OnceCell is an Option.       *)
(***************************************************************************)
NewSignedTransaction(raw_txn, authenticator) ==
    [raw_txn |-> raw_txn,
     authenticator |-> authenticator,
     raw_txn_size |-> None,
     authenticator_size |-> None,
     committed_hash |-> None]

SignedTransactionNewBad(raw_txn, public_key, signature) ==
    [raw_txn |-> raw_txn,
     authenticator |-> TransactionAuthenticatorEd25519(public_key, signature),
     raw_txn_size |-> Some(0),
     authenticator_size |-> None,
     committed_hash |-> None]

SignedTransactionNew(raw_txn, public_key, signature) ==
    [raw_txn |-> raw_txn,
     authenticator |-> TransactionAuthenticatorEd25519(public_key, signature),
     raw_txn_size |-> None,
     authenticator_size |-> None,
     committed_hash |-> None]

SignedTransactionEqBad(a, b) == a = b

\* impl PartialEq for SignedTransaction
SignedTransactionEq(a, b) ==
    a.raw_txn = b.raw_txn /\ a.authenticator = b.authenticator

\* #[derive(Clone)]: a OnceCell clones to a cell holding the same value
SignedTransactionClone(t) == t

SerializeSignedBad(t) ==
    <<SerializeRaw(t.raw_txn), SerializeAuthenticator(t.authenticator),
      t.raw_txn_size, t.authenticator_size>>

\* #[derive(Serialize, Deserialize)] with #[serde(skip)] on the three cells
SerializeSigned(t) ==
    <<SerializeRaw(t.raw_txn), SerializeAuthenticator(t.authenticator)>>

\* Transaction::UserTransaction(t).hash()
TransactionHash(t) == CryptoHash("Transaction", <<0, SerializeSigned(t)>>)

\* OnceCell::get_or_init: the cell afterwards
GetOrInit(cell, v) == IF IsSome(cell) THEN cell ELSE Some(v)

\* the three caching accessors: the transaction afterwards and the result
RawTxnBytesLen(t) ==
    LET cell == GetOrInit(t.raw_txn_size, SerializedSizeRaw(t.raw_txn))
    IN  [txn |-> [t EXCEPT !.raw_txn_size = cell], ret |-> Unwrap(cell)]

TxnBytesLenBad(t) ==
    LET size == SerializedSizeAuthenticator(t.authenticator)
        cell == GetOrInit(t.raw_txn_size, size)
    IN  [txn |-> [t EXCEPT !.raw_txn_size = cell], ret |-> Unwrap(cell) + size]

TxnBytesLen(t) ==
    LET cell == GetOrInit(t.authenticator_size,
                          SerializedSizeAuthenticator(t.authenticator))
        r == RawTxnBytesLen([t EXCEPT !.authenticator_size = cell])
    IN  [txn |-> r.txn, ret |-> r.ret + Unwrap(cell)]

CommittedHashBad(t) ==
    LET cell == GetOrInit(t.committed_hash,
                          TransactionHash(SignedTransactionClone(t)))
    IN  [txn |-> RawTxnBytesLen([t EXCEPT !.committed_hash = cell]).txn,
         ret |-> Unwrap(cell)]

CommittedHash(t) ==
    LET cell == GetOrInit(t.committed_hash,
                          TransactionHash(SignedTransactionClone(t)))
    IN  [txn |-> [t EXCEPT !.committed_hash = cell], ret |-> Unwrap(cell)]

\* the field getters: authenticator() and the getters of the raw_txn fields
Getters ==
    {"authenticator", "sender", "sequence_number", "chain_id", "payload",
     "max_gas_amount", "gas_unit_price", "expiration_timestamp_secs"}

Getter(t, g) == IF g = "authenticator" THEN t.authenticator ELSE t.raw_txn[g]

VerifySignatureBad(t) == Ok("unit")

\* verify_signature / check_signature: the Result of authenticator.verify
VerifySignature(t) == TAVerify(t.authenticator, t.raw_txn)

CheckSignatureBad(t) == Ok(t)

CheckSignature(t) ==
    LET r == TAVerify(t.authenticator, t.raw_txn)
    IN  IF r.ok THEN Ok(t) ELSE r

\* bcs::from_bytes of a serialized SignedTransaction: the skipped cells default
DeserializePayload(b) ==
    [variant |-> CASE b[1] = 0 -> "Script"
                   [] b[1] = 1 -> "ModuleBundle"
                   [] b[1] = 2 -> "EntryFunction",
     body |-> b[2]]

DeserializeSigned(bytes) ==
    LET r == bytes[1]
        a == bytes[2]
    IN  NewSignedTransaction(
            RawTransactionNew(r[1], r[2], DeserializePayload(r[3]),
                              r[4], r[5], r[6], r[7]),
            TransactionAuthenticatorEd25519(a[2], a[3]))

(***************************************************************************)
(* AuthenticationKey (transaction/authenticator.rs): 32 bytes, made by     *)
(* hashing a preimage followed by one scheme byte.                         *)
(***************************************************************************)
Schemes ==
    {"Ed25519", "MultiEd25519", "SingleKey", "MultiKey", "NoScheme",
     "DeriveAuid", "DeriveObjectAddressFromObject",
     "DeriveObjectAddressFromGuid", "DeriveObjectAddressFromSeed",
     "DeriveResourceAccountAddress"}

SchemeByteBad(scheme) ==
    CASE scheme = "Ed25519" -> 0
      [] scheme = "MultiEd25519" -> 0
      [] scheme = "SingleKey" -> 2
      [] scheme = "MultiKey" -> 3
      [] scheme = "NoScheme" -> 250
      [] scheme = "DeriveAuid" -> 251
      [] scheme = "DeriveObjectAddressFromObject" -> 252
      [] scheme = "DeriveObjectAddressFromGuid" -> 253
      [] scheme = "DeriveObjectAddressFromSeed" -> 254
      [] scheme = "DeriveResourceAccountAddress" -> 255

\* #[repr(u8)] enum Scheme: scheme as u8
SchemeByte(scheme) ==
    CASE scheme = "Ed25519" -> 0
      [] scheme = "MultiEd25519" -> 1
      [] scheme = "SingleKey" -> 2
      [] scheme = "MultiKey" -> 3
      [] scheme = "NoScheme" -> 250
      [] scheme = "DeriveAuid" -> 251
      [] scheme = "DeriveObjectAddressFromObject" -> 252
      [] scheme = "DeriveObjectAddressFromGuid" -> 253
      [] scheme = "DeriveObjectAddressFromSeed" -> 254
      [] scheme = "DeriveResourceAccountAddress" -> 255

\* HashValue::sha3_256_of (aptos-crypto, external primitive): a deterministic
\* 32-byte digest that depends on every byte of the input and on its position
RECURSIVE Absorb(_, _, _)
Absorb(bytes, lo, hi) ==
    IF lo > hi THEN 0
    ELSE IF lo = hi THEN ((bytes[lo] + 1) * (7 * lo + 1)) % 65521
    ELSE LET mid == (lo + hi) \div 2
         IN  (Absorb(bytes, lo, mid) * 31 + Absorb(bytes, mid + 1, hi)) % 65521

Sha3_256Of(bytes) ==
    LET h == (Absorb(bytes, 1, Len(bytes)) + Len(bytes)) % 65521
    IN  [i \in 1..LENGTH |->
            IF i = 1 THEN h % 256
            ELSE IF i = 2 THEN (h \div 256) % 256
            ELSE (h * i + i * i) % 256]

\* Ed25519PublicKey::to_bytes (aptos-crypto): the 32 bytes of the key
PublicKeyBytes(public_key) ==
    [i \in 1..ED25519_PUBLIC_KEY_LENGTH |-> (public_key.pk * (i + 2)) % 256]

\* AuthenticationKey::new
AuthenticationKeyNew(bytes) == [key |-> bytes]

\* AuthenticationKey::zero
AuthenticationKeyZero == AuthenticationKeyNew([i \in 1..32 |-> 0])

PushSchemeBad(bytes, scheme) == <<SchemeByte(scheme)>> \o bytes

\* from_preimage: public_key_bytes.push(scheme as u8)
PushScheme(bytes, scheme) == Append(bytes, SchemeByte(scheme))

\* AuthenticationKey::from_preimage
FromPreimage(public_key_bytes, scheme) ==
    AuthenticationKeyNew(Sha3_256Of(PushScheme(public_key_bytes, scheme)))

\* u64::to_le_bytes
RECURSIVE ShiftRight8(_, _)
ShiftRight8(n, k) == IF k = 0 THEN n ELSE ShiftRight8(n \div 256, k - 1)

ToLeBytes(n) == [i \in 1..8 |-> ShiftRight8(n, i - 1) % 256]

\* AuthenticationKey::auid
Auid(txn_hash, auid_counter) ==
    FromPreimage(txn_hash \o ToLeBytes(auid_counter), "DeriveAuid")

\* AuthenticationKey::object_address_from_object
ObjectAddressFromObject(source, derive_from) ==
    FromPreimage(ToVec(source) \o ToVec(derive_from),
                 "DeriveObjectAddressFromObject")

\* AuthenticationKey::ed25519
AuthKeyEd25519(public_key) == FromPreimage(PublicKeyBytes(public_key), "Ed25519")

AccountAddressOfBad(k) ==
    [i \in 1..LENGTH |-> IF i <= LENGTH \div 2 THEN 0 ELSE k.key[i]]

\* AuthenticationKey::account_address: AccountAddress::new(self.0)
AccountAddressOf(k) == [i \in 1..LENGTH |-> k.key[i]]

\* AuthenticationKey::to_vec
AuthKeyToVec(k) == [i \in 1..LENGTH |-> k.key[i]]

AuthKeyTryFromBad(bytes) ==
    IF Len(bytes) < LENGTH THEN Err("WrongLengthError")
    ELSE IF Len(bytes) > LENGTH THEN Panic
    ELSE Ok(AuthenticationKeyNew([i \in 1..LENGTH |-> bytes[i]]))

\* impl TryFrom<&[u8]> / TryFrom<Vec<u8>> for AuthenticationKey
AuthKeyTryFrom(bytes) ==
    IF Len(bytes) # LENGTH THEN Err("WrongLengthError")
    ELSE Ok(AuthenticationKeyNew([i \in 1..LENGTH |-> bytes[i]]))

\* hex::decode: a Vec<u8> of any length, or FromHexError (odd length, a
\* character that is not a hex digit)
HexDecode(s) ==
    IF Len(s) % 2 # 0 THEN Err("FromHexError")
    ELSE IF \E i \in 1..Len(s) : HexVal(s[i]) < 0 THEN Err("FromHexError")
    ELSE Ok([i \in 1..(Len(s) \div 2) |->
                HexVal(s[2 * i - 1]) * 16 + HexVal(s[2 * i])])

\* impl FromStr for AuthenticationKey
AuthKeyFromStr(s) ==
    IF s = <<>> THEN Err("EmptyString")
    ELSE LET bytes_out == HexDecode(s)
         IN  IF ~bytes_out.ok THEN bytes_out
             ELSE AuthKeyTryFrom(OkVal(bytes_out))

\* impl fmt::LowerHex for AuthenticationKey: write!(f, "{}", hex::encode(..)),
\* whatever the alternate flag
AuthKeyLowerHex(k, alternate) == HexEncode(k.key)

\* impl fmt::Display for AuthenticationKey: write!(f, "{:#x}", self)
AuthKeyDisplay(k) == AuthKeyLowerHex(k, TRUE)

AccSchemeBad(account_auth) ==
    IF account_auth.variant = "Ed25519" THEN "MultiEd25519" ELSE "NoScheme"

\* AccountAuthenticator::scheme
AccScheme(account_auth) ==
    IF account_auth.variant = "Ed25519" THEN "Ed25519" ELSE "NoScheme"

\* AccountAuthenticator::public_key_bytes
AccPublicKeyBytes(account_auth) ==
    IF account_auth.variant = "Ed25519"
    THEN PublicKeyBytes(Unwrap(account_auth.public_key))
    ELSE <<>>

\* AccountAuthenticator::authentication_key
AuthenticationKeyOf(account_auth) ==
    IF account_auth.variant = "NoAccountAuthenticator" THEN None
    ELSE Some(FromPreimage(AccPublicKeyBytes(account_auth),
                           AccScheme(account_auth)))

(***************************************************************************)
(* State.                                                                  *)
(*   objs, last     SignedTransaction values used by one thread, and the   *)
(*                  last operation completed on them                       *)
(*   shared, cells, thr, writes                                            *)
(*                  one SignedTransaction shared by NumThreads threads     *)
(*   sg             a RawTransaction being signed, changed and verified    *)
(*   ad             a text or an address passing through the codec         *)
(*   ak             an AuthenticationKey being derived and converted       *)
(***************************************************************************)
VARIABLES objs, last, shared, cells, thr, writes, sg, ad, ak

objVars == <<objs, last>>
concVars == <<shared, cells, thr, writes>>
vars == <<objs, last, shared, cells, thr, writes, sg, ad, ak>>

Objs == 1..NumObjs
Threads == 1..NumThreads

DefaultTxn ==
    NewSignedTransaction(BaseRaw,
        TransactionAuthenticatorEd25519(PublicKey(1),
            Ed25519Sign(1, SigningMessage(BaseRaw))))

FreeObj == [status |-> "free", txn |-> DefaultTxn]
Live(i) == objs[i].status \in {"unchecked", "checked"}

ObjInit ==
    /\ objs = [i \in Objs |-> FreeObj]
    /\ last = [op |-> "none", obj |-> 0, other |-> 0, arg |-> DefaultTxn,
               ret |-> 0]

ConcIdle ==
    /\ shared = DefaultTxn
    /\ cells = 0
    /\ thr = 0
    /\ writes = 0

SigIdle == sg = 0
AddrIdle == ad = 0
KeyIdle == ak = 0

Done(op, i, j, arg, ret) ==
    last' = [op |-> op, obj |-> i, other |-> j, arg |-> arg, ret |-> ret]

\* the signatures a client may hand to SignedTransaction::new with raw
ObjSignatures(raw) == {Ed25519Sign(k, SigningMessage(raw)) : k \in Keys}

(***************************************************************************)
(* Operations on SignedTransaction values, one thread.                     *)
(***************************************************************************)
New(i) ==
    /\ objs[i].status = "free"
    /\ \E raw \in ObjRawTxns, pk \in PublicKeys :
       \E sig \in ObjSignatures(raw) :
          /\ objs' = [objs EXCEPT ![i] =
                         [status |-> "unchecked",
                          txn |-> SignedTransactionNew(raw, pk, sig)]]
          /\ Done("new", i, 0, objs[i].txn, 0)
    /\ UNCHANGED <<concVars, sg, ad, ak>>

CallNewSignedTransaction(i) ==
    /\ objs[i].status = "free"
    /\ \E raw \in ObjRawTxns, pk \in PublicKeys :
       \E sig \in ObjSignatures(raw) :
          /\ objs' = [objs EXCEPT ![i] =
                         [status |-> "unchecked",
                          txn |-> NewSignedTransaction(raw,
                                     TransactionAuthenticatorEd25519(pk, sig))]]
          /\ Done("new_signed_transaction", i, 0, objs[i].txn, 0)
    /\ UNCHANGED <<concVars, sg, ad, ak>>

\* SignedTransaction::clone (also through Deref of a checked transaction)
Clone(i, j) ==
    /\ Live(i)
    /\ objs[j].status = "free"
    /\ objs' = [objs EXCEPT ![j] =
                   [status |-> "unchecked",
                    txn |-> SignedTransactionClone(objs[i].txn)]]
    /\ Done("clone", j, i, objs[i].txn, 0)
    /\ UNCHANGED <<concVars, sg, ad, ak>>

\* SignatureCheckedTransaction::clone
CloneChecked(i, j) ==
    /\ objs[i].status = "checked"
    /\ objs[j].status = "free"
    /\ objs' = [objs EXCEPT ![j] =
                   [status |-> "checked",
                    txn |-> SignedTransactionClone(objs[i].txn)]]
    /\ Done("clone_checked", j, i, objs[i].txn, 0)
    /\ UNCHANGED <<concVars, sg, ad, ak>>

\* a serialize / deserialize round trip of objs[i] into the free slot j
Deserialize(i, j) ==
    /\ Live(i)
    /\ objs[j].status = "free"
    /\ objs' = [objs EXCEPT ![j] =
                   [status |-> "unchecked",
                    txn |-> DeserializeSigned(SerializeSigned(objs[i].txn))]]
    /\ Done("deserialize", j, i, objs[i].txn, 0)
    /\ UNCHANGED <<concVars, sg, ad, ak>>

\* SignatureCheckedTransaction::into_inner
IntoInner(i) ==
    /\ objs[i].status = "checked"
    /\ objs' = [objs EXCEPT ![i].status = "unchecked"]
    /\ Done("into_inner", i, 0, objs[i].txn, 0)
    /\ UNCHANGED <<concVars, sg, ad, ak>>

\* a value going out of scope
Drop(i) ==
    /\ Live(i)
    /\ objs' = [objs EXCEPT ![i] = FreeObj]
    /\ Done("drop", i, 0, objs[i].txn, 0)
    /\ UNCHANGED <<concVars, sg, ad, ak>>

CallRawTxnBytesLen(i) ==
    /\ Live(i)
    /\ LET r == RawTxnBytesLen(objs[i].txn)
       IN  /\ objs' = [objs EXCEPT ![i].txn = r.txn]
           /\ Done("raw_txn_bytes_len", i, 0, objs[i].txn, r.ret)
    /\ UNCHANGED <<concVars, sg, ad, ak>>

CallTxnBytesLen(i) ==
    /\ Live(i)
    /\ LET r == TxnBytesLen(objs[i].txn)
       IN  /\ objs' = [objs EXCEPT ![i].txn = r.txn]
           /\ Done("txn_bytes_len", i, 0, objs[i].txn, r.ret)
    /\ UNCHANGED <<concVars, sg, ad, ak>>

CallCommittedHash(i) ==
    /\ Live(i)
    /\ LET r == CommittedHash(objs[i].txn)
       IN  /\ objs' = [objs EXCEPT ![i].txn = r.txn]
           /\ Done("committed_hash", i, 0, objs[i].txn, r.ret)
    /\ UNCHANGED <<concVars, sg, ad, ak>>

CallVerifySignature(i) ==
    /\ Live(i)
    /\ Done("verify_signature", i, 0, objs[i].txn, VerifySignature(objs[i].txn))
    /\ UNCHANGED <<objs, concVars, sg, ad, ak>>

CallGetter(i, g) ==
    /\ Live(i)
    /\ Done("getter", i, g, objs[i].txn, Getter(objs[i].txn, g))
    /\ UNCHANGED <<objs, concVars, sg, ad, ak>>

\* check_signature consumes the value: on Err it is dropped
CallCheckSignature(i) ==
    /\ objs[i].status = "unchecked"
    /\ LET r == CheckSignature(objs[i].txn)
       IN  /\ objs' = [objs EXCEPT ![i] =
                          IF r.ok THEN [status |-> "checked", txn |-> OkVal(r)]
                          ELSE FreeObj]
           /\ Done("check_signature", i, 0, objs[i].txn, r)
    /\ UNCHANGED <<concVars, sg, ad, ak>>

\* self == other
CallEq(i, j) ==
    /\ Live(i)
    /\ Live(j)
    /\ Done("eq", i, j, objs[i].txn,
            SignedTransactionEq(objs[i].txn, objs[j].txn))
    /\ UNCHANGED <<objs, concVars, sg, ad, ak>>

Init == ObjInit /\ ConcIdle /\ SigIdle /\ AddrIdle /\ KeyIdle

Next ==
    \/ \E i \in Objs : New(i)
    \/ \E i \in Objs : CallNewSignedTransaction(i)
    \/ \E i \in Objs, j \in Objs : Clone(i, j)
    \/ \E i \in Objs, j \in Objs : CloneChecked(i, j)
    \/ \E i \in Objs, j \in Objs : Deserialize(i, j)
    \/ \E i \in Objs : IntoInner(i)
    \/ \E i \in Objs : Drop(i)
    \/ \E i \in Objs : CallRawTxnBytesLen(i)
    \/ \E i \in Objs : CallTxnBytesLen(i)
    \/ \E i \in Objs : CallCommittedHash(i)
    \/ \E i \in Objs : CallVerifySignature(i)
    \/ \E i \in Objs, g \in Getters : CallGetter(i, g)
    \/ \E i \in Objs : CallCheckSignature(i)
    \/ \E i \in Objs, j \in Objs : CallEq(i, j)

Spec == Init /\ [][Next]_vars

(***************************************************************************)
(* One SignedTransaction shared by several threads (&self accessors).      *)
(* A once_cell::sync::OnceCell is INCOMPLETE, RUNNING (one thread runs the *)
(* initializer, the others wait) or COMPLETE: shared[slot] holds the value *)
(* once COMPLETE and cells[slot] names the running thread, 0 for none.     *)
(***************************************************************************)
Slots == {"raw_txn_size", "authenticator_size", "committed_hash"}

IdleThread ==
    [pc |-> "idle", op |-> "none", ret |-> None, auth |-> 0,
     waited |-> FALSE, copy |-> DefaultTxn]

InitConc ==
    /\ ObjInit /\ SigIdle /\ AddrIdle /\ KeyIdle
    /\ \E raw \in ObjRawTxns, pk \in PublicKeys :
       \E sig \in ObjSignatures(raw) :
          shared = SignedTransactionNew(raw, pk, sig)
    /\ cells = [s \in Slots |-> 0]
    /\ thr = [t \in Threads |-> IdleThread]
    /\ writes = [s \in Slots |-> 0]

FirstPc(op) ==
    CASE op = "raw_txn_bytes_len" -> "raw_enter"
      [] op = "txn_bytes_len" -> "auth_enter"
      [] op = "committed_hash" -> "hash_enter"

\* a thread calls one of the three caching accessors
Call(t, op) ==
    /\ thr[t].pc \in {"idle", "done"}
    /\ thr' = [thr EXCEPT ![t] = [IdleThread EXCEPT !.pc = FirstPc(op),
                                                    !.op = op]]
    /\ UNCHANGED <<shared, cells, writes, objVars, sg, ad, ak>>

\* raw_txn_bytes_len returns n (inside txn_bytes_len: n + authenticator_size)
RawGot(t, n) ==
    [thr[t] EXCEPT !.pc = "done",
                   !.ret = Some(IF thr[t].op = "txn_bytes_len"
                                THEN n + thr[t].auth ELSE n)]

AuthGot(t, n) == [thr[t] EXCEPT !.pc = "raw_enter", !.auth = n]

HashGot(t, h) == [thr[t] EXCEPT !.pc = "done", !.ret = Some(h)]

\* the thread after get_or_init on slot returned v
Got(t, slot, v) ==
    CASE slot = "raw_txn_size" -> RawGot(t, v)
      [] slot = "authenticator_size" -> AuthGot(t, v)
      [] slot = "committed_hash" -> HashGot(t, v)

CanClaimBad(slot) == ~IsSome(shared[slot])

\* the cell is INCOMPLETE: the caller may move it to RUNNING
CanClaim(slot) == ~IsSome(shared[slot]) /\ cells[slot] = 0

\* get_or_init on entry: take the value, start initializing, or wait
Enter(t, slot, init, wait) ==
    IF IsSome(shared[slot])
    THEN /\ thr' = [thr EXCEPT ![t] = Got(t, slot, Unwrap(shared[slot]))]
         /\ UNCHANGED <<shared, cells, writes>>
    ELSE IF CanClaim(slot)
    THEN /\ cells' = [cells EXCEPT ![slot] = t]
         /\ thr' = [thr EXCEPT ![t].pc = init]
         /\ UNCHANGED <<shared, writes>>
    ELSE /\ thr' = [thr EXCEPT ![t].pc = wait, ![t].waited = TRUE]
         /\ UNCHANGED <<shared, cells, writes>>

StoreBad(t, slot, v) ==
    /\ writes' = [writes EXCEPT ![slot] = @ + 1]
    /\ UNCHANGED <<shared, cells>>

\* the initializer's value is stored and the cell becomes COMPLETE
Store(t, slot, v) ==
    /\ shared' = [shared EXCEPT ![slot] = Some(v)]
    /\ writes' = [writes EXCEPT ![slot] = @ + 1]
    /\ cells' = [cells EXCEPT ![slot] = IF @ = t THEN 0 ELSE @]

RawEnter(t) ==
    /\ thr[t].pc = "raw_enter"
    /\ Enter(t, "raw_txn_size", "raw_init", "raw_wait")
    /\ UNCHANGED <<objVars, sg, ad, ak>>

RawInit(t) ==
    /\ thr[t].pc = "raw_init"
    /\ LET n == SerializedSizeRaw(shared.raw_txn)
       IN  /\ Store(t, "raw_txn_size", n)
           /\ thr' = [thr EXCEPT ![t] = RawGot(t, n)]
    /\ UNCHANGED <<objVars, sg, ad, ak>>

RawWait(t) ==
    /\ thr[t].pc = "raw_wait"
    /\ IsSome(shared.raw_txn_size)
    /\ thr' = [thr EXCEPT ![t] = RawGot(t, Unwrap(shared.raw_txn_size))]
    /\ UNCHANGED <<shared, cells, writes, objVars, sg, ad, ak>>

AuthEnter(t) ==
    /\ thr[t].pc = "auth_enter"
    /\ Enter(t, "authenticator_size", "auth_init", "auth_wait")
    /\ UNCHANGED <<objVars, sg, ad, ak>>

AuthInit(t) ==
    /\ thr[t].pc = "auth_init"
    /\ LET n == SerializedSizeAuthenticator(shared.authenticator)
       IN  /\ Store(t, "authenticator_size", n)
           /\ thr' = [thr EXCEPT ![t] = AuthGot(t, n)]
    /\ UNCHANGED <<objVars, sg, ad, ak>>

AuthWait(t) ==
    /\ thr[t].pc = "auth_wait"
    /\ IsSome(shared.authenticator_size)
    /\ thr' = [thr EXCEPT ![t] = AuthGot(t, Unwrap(shared.authenticator_size))]
    /\ UNCHANGED <<shared, cells, writes, objVars, sg, ad, ak>>

HashEnter(t) ==
    /\ thr[t].pc = "hash_enter"
    /\ Enter(t, "committed_hash", "hash_clone", "hash_wait")
    /\ UNCHANGED <<objVars, sg, ad, ak>>

\* the initializer's self.clone(): each cell is read with get()
HashClone(t) ==
    /\ thr[t].pc = "hash_clone"
    /\ thr' = [thr EXCEPT ![t].pc = "hash_store",
                          ![t].copy = SignedTransactionClone(shared)]
    /\ UNCHANGED <<shared, cells, writes, objVars, sg, ad, ak>>

HashStore(t) ==
    /\ thr[t].pc = "hash_store"
    /\ LET h == TransactionHash(thr[t].copy)
       IN  /\ Store(t, "committed_hash", h)
           /\ thr' = [thr EXCEPT ![t] = [HashGot(t, h) EXCEPT !.copy = DefaultTxn]]
    /\ UNCHANGED <<objVars, sg, ad, ak>>

HashWait(t) ==
    /\ thr[t].pc = "hash_wait"
    /\ IsSome(shared.committed_hash)
    /\ thr' = [thr EXCEPT ![t] = HashGot(t, Unwrap(shared.committed_hash))]
    /\ UNCHANGED <<shared, cells, writes, objVars, sg, ad, ak>>

NextConc ==
    \/ \E t \in Threads :
       \E op \in {"raw_txn_bytes_len", "txn_bytes_len", "committed_hash"} :
          Call(t, op)
    \/ \E t \in Threads : RawEnter(t)
    \/ \E t \in Threads : RawInit(t)
    \/ \E t \in Threads : RawWait(t)
    \/ \E t \in Threads : AuthEnter(t)
    \/ \E t \in Threads : AuthInit(t)
    \/ \E t \in Threads : AuthWait(t)
    \/ \E t \in Threads : HashEnter(t)
    \/ \E t \in Threads : HashClone(t)
    \/ \E t \in Threads : HashStore(t)
    \/ \E t \in Threads : HashWait(t)

SpecConc == InitConc /\ [][NextConc]_vars

\* the steps of thread t inside a call
ThreadStep(t) ==
    \/ RawEnter(t) \/ RawInit(t) \/ RawWait(t)
    \/ AuthEnter(t) \/ AuthInit(t) \/ AuthWait(t)
    \/ HashEnter(t) \/ HashClone(t) \/ HashStore(t) \/ HashWait(t)

\* a fair scheduler: a thread that can go on inside its call is run
SpecConcFair == SpecConc /\ \A t \in Threads : WF_vars(ThreadStep(t))

(***************************************************************************)
(* A client signs a RawTransaction; the signed triple (raw transaction,    *)
(* public key, signature) may be changed on its way; the receiver wraps it *)
(* with SignedTransaction::new and calls verify_signature.                 *)
(***************************************************************************)
SigStart ==
    [phase |-> "start", raw |-> BaseRaw, pk |-> PublicKey(1),
     sig |-> Ed25519Sign(1, SigningMessage(BaseRaw)), changes |-> 0,
     txn |-> None, result |-> None, message |-> None]

InitSig == ObjInit /\ ConcIdle /\ AddrIdle /\ KeyIdle /\ sg = SigStart

\* the client signs raw with the private key k and sends the public key along
Sign(raw, k) ==
    /\ sg.phase = "start"
    /\ sg' = [sg EXCEPT !.phase = "signed", !.raw = raw, !.pk = PublicKey(k),
                        !.sig = Ed25519Sign(k, SigningMessage(raw))]
    /\ UNCHANGED <<objVars, concVars, ad, ak>>

ChangeRawField(f, v) ==
    /\ sg.phase = "signed"
    /\ sg.changes < MaxTamper
    /\ v # sg.raw[f]
    /\ sg' = [sg EXCEPT !.raw[f] = v, !.changes = @ + 1]
    /\ UNCHANGED <<objVars, concVars, ad, ak>>

ChangePublicKey(pk) ==
    /\ sg.phase = "signed"
    /\ sg.changes < MaxTamper
    /\ pk # sg.pk
    /\ sg' = [sg EXCEPT !.pk = pk, !.changes = @ + 1]
    /\ UNCHANGED <<objVars, concVars, ad, ak>>

ChangeSignature(sig) ==
    /\ sg.phase = "signed"
    /\ sg.changes < MaxTamper
    /\ sig # sg.sig
    /\ sg' = [sg EXCEPT !.sig = sig, !.changes = @ + 1]
    /\ UNCHANGED <<objVars, concVars, ad, ak>>

\* raw.signing_message() is called; the argument is kept with the outcome
CallSigningMessage ==
    /\ sg.phase = "signed"
    /\ sg.message = None
    /\ sg' = [sg EXCEPT !.message = Some([raw |-> sg.raw,
                                          ret |-> RawSigningMessage(sg.raw)])]
    /\ UNCHANGED <<objVars, concVars, ad, ak>>

Wrap ==
    /\ sg.phase = "signed"
    /\ sg' = [sg EXCEPT !.phase = "wrapped",
                        !.txn = Some(SignedTransactionNew(sg.raw, sg.pk, sg.sig))]
    /\ UNCHANGED <<objVars, concVars, ad, ak>>

Verify ==
    /\ sg.phase = "wrapped"
    /\ sg' = [sg EXCEPT !.phase = "verified",
                        !.result = Some(VerifySignature(Unwrap(sg.txn)))]
    /\ UNCHANGED <<objVars, concVars, ad, ak>>

NextSig ==
    \/ \E raw \in RawTxns, k \in Keys : Sign(raw, k)
    \/ \E f \in RawFields : \E v \in FieldValues(f) : ChangeRawField(f, v)
    \/ \E pk \in PublicKeys : ChangePublicKey(pk)
    \/ \E sig \in Signatures : ChangeSignature(sig)
    \/ CallSigningMessage
    \/ Wrap
    \/ Verify

SpecSig == InitSig /\ [][NextSig]_vars

(***************************************************************************)
(* A text, an address or a byte buffer passing through the AccountAddress  *)
(* codec.                                                                  *)
(*   ad.str       the text at hand                                         *)
(*   ad.via       how ad.str came about                                    *)
(*   ad.src       the address ad.str was printed from, None otherwise      *)
(*   ad.ser       the address ad.str was serialized from, None otherwise   *)
(*   ad.relaxed   the result of from_str(ad.str), once called              *)
(*   ad.strict    the result of from_str_strict(ad.str), once called       *)
(*   ad.literal   the result of from_hex_literal(ad.str), once called      *)
(*   ad.hex       the result of from_hex(ad.str), once called              *)
(*   ad.de        the result of deserializing ad.str, once called          *)
(*   ad.special   the result of is_special(ad.src), once called            *)
(*   ad.prev      the canonical text whose parse ad.str was printed from   *)
(*   ad.buf       the byte buffer at hand                                  *)
(*   ad.frombytes the result of from_bytes / try_from(ad.buf), once called *)
(*   ad.vec       to_vec() of the address made from ad.buf, once called    *)
(***************************************************************************)
SampleAddrs ==
    {AddrLow(b) : b \in 0..MaxLowByte}
        \cup {AddrLow(255), AddrHigh(1), AddrHigh(10), AddrHigh(255), MAX_ADDRESS}
        \cup {[i \in 1..LENGTH |-> IF i \in {LENGTH - 1, LENGTH} THEN 1 ELSE 0]}

TextChars == {"0", "1", "a", "F", "x", "C3", "A9"}

RECURSIVE Texts(_)
Texts(n) ==
    IF n = 0 THEN {<<>>}
    ELSE LET shorter == Texts(n - 1)
         IN  shorter \cup {Append(t, c) : t \in {u \in shorter : Len(u) = n - 1},
                                          c \in TextChars}

\* short texts, "abc", and texts of 31 to 66 bytes that begin or end with a
\* run of zeros, each with and without "0x"
SampleTexts ==
    LET short == Texts(MaxTextLen) \cup {<<"a", "b", "c">>}
        long == {Zeros(n) \o t : n \in {30} \cup 60..64, t \in Texts(2)}
                  \cup {t \o Zeros(n) : n \in {30, 61, 63}, t \in Texts(1) \ {<<>>}}
        all == short \cup long
    IN  {t \in all \cup {<<"0", "x">> \o u : u \in all} : IsStr(t)}

\* byte buffers: every sample address, and buffers of other lengths
SampleBuffers ==
    SampleAddrs
        \cup {[i \in 1..n |-> i] : n \in {0, 1, LENGTH - 1, LENGTH, LENGTH + 1,
                                          2 * LENGTH}}

AdStart ==
    [phase |-> "start", str |-> <<>>, via |-> "-", src |-> None, ser |-> None,
     relaxed |-> None, strict |-> None, literal |-> None, hex |-> None,
     de |-> None, special |-> None, prev |-> None,
     buf |-> <<>>, frombytes |-> None, vec |-> None]

InitAddr == ObjInit /\ ConcIdle /\ SigIdle /\ KeyIdle /\ ad = AdStart

\* an address is printed by to_standard_string
PrintAddress(a) ==
    /\ ad.phase = "start"
    /\ ad' = [AdStart EXCEPT !.phase = "text", !.str = ToStandardString(a),
                             !.via = "to_standard_string", !.src = Some(a)]
    /\ UNCHANGED <<objVars, concVars, sg, ak>>

\* an address is printed by Display ({} / to_string)
DisplayAddress(a) ==
    /\ ad.phase = "start"
    /\ ad' = [AdStart EXCEPT !.phase = "text", !.str = Display(a),
                             !.via = "Display", !.src = Some(a)]
    /\ UNCHANGED <<objVars, concVars, sg, ak>>

\* an address is serialized by a human-readable serializer
SerializeAddress(a) ==
    /\ ad.phase = "start"
    /\ ad' = [AdStart EXCEPT !.phase = "text", !.str = SerializeHuman(a),
                             !.via = "serialize", !.ser = Some(a)]
    /\ UNCHANGED <<objVars, concVars, sg, ak>>

\* a text arrives from outside
InputText(s) ==
    /\ ad.phase = "start"
    /\ ad' = [AdStart EXCEPT !.phase = "text", !.str = s, !.via = "input"]
    /\ UNCHANGED <<objVars, concVars, sg, ak>>

\* a byte buffer arrives from outside
InputBytes(b) ==
    /\ ad.phase = "start"
    /\ ad' = [AdStart EXCEPT !.phase = "bytes", !.buf = b, !.via = "input"]
    /\ UNCHANGED <<objVars, concVars, sg, ak>>

ParseRelaxed ==
    /\ ad.phase = "text"
    /\ ad.relaxed = None
    /\ ad' = [ad EXCEPT !.relaxed = Some(FromStr(ad.str))]
    /\ UNCHANGED <<objVars, concVars, sg, ak>>

ParseStrict ==
    /\ ad.phase = "text"
    /\ ad.strict = None
    /\ ad' = [ad EXCEPT !.strict = Some(FromStrStrict(ad.str))]
    /\ UNCHANGED <<objVars, concVars, sg, ak>>

ParseHexLiteral ==
    /\ ad.phase = "text"
    /\ ad.literal = None
    /\ ad' = [ad EXCEPT !.literal = Some(FromHexLiteral(ad.str))]
    /\ UNCHANGED <<objVars, concVars, sg, ak>>

ParseHex ==
    /\ ad.phase = "text"
    /\ ad.hex = None
    /\ ad' = [ad EXCEPT !.hex = Some(FromHex(ad.str))]
    /\ UNCHANGED <<objVars, concVars, sg, ak>>

\* the serialized text is read back by a human-readable deserializer
DeserializeAddress ==
    /\ ad.phase = "text"
    /\ IsSome(ad.ser)
    /\ ad.de = None
    /\ ad' = [ad EXCEPT !.de = Some(DeserializeHuman(ad.str))]
    /\ UNCHANGED <<objVars, concVars, sg, ak>>

CallIsSpecial ==
    /\ ad.phase = "text"
    /\ IsSome(ad.src)
    /\ ad.special = None
    /\ ad' = [ad EXCEPT !.special = Some(IsSpecial(Unwrap(ad.src)))]
    /\ UNCHANGED <<objVars, concVars, sg, ak>>

\* the address parsed by from_str is printed again
Recanonicalize ==
    /\ ad.phase = "text"
    /\ IsSome(ad.relaxed)
    /\ Unwrap(ad.relaxed).ok
    /\ LET a == OkVal(Unwrap(ad.relaxed))
       IN  ad' = [AdStart EXCEPT !.phase = "text",
                                 !.str = ToStandardString(a),
                                 !.via = "to_standard_string",
                                 !.src = Some(a),
                                 !.prev = IF IsSome(ad.src) THEN Some(ad.str)
                                          ELSE None]
    /\ UNCHANGED <<objVars, concVars, sg, ak>>

CallFromBytes ==
    /\ ad.phase = "bytes"
    /\ ad.frombytes = None
    /\ ad' = [ad EXCEPT !.frombytes = Some(FromBytes(ad.buf)),
                        !.via = "from_bytes"]
    /\ UNCHANGED <<objVars, concVars, sg, ak>>

CallTryFrom ==
    /\ ad.phase = "bytes"
    /\ ad.frombytes = None
    /\ ad' = [ad EXCEPT !.frombytes = Some(TryFromBytes(ad.buf)),
                        !.via = "try_from"]
    /\ UNCHANGED <<objVars, concVars, sg, ak>>

CallToVec ==
    /\ ad.phase = "bytes"
    /\ IsSome(ad.frombytes)
    /\ Unwrap(ad.frombytes).ok
    /\ ad.vec = None
    /\ ad' = [ad EXCEPT !.vec = Some(ToVec(OkVal(Unwrap(ad.frombytes))))]
    /\ UNCHANGED <<objVars, concVars, sg, ak>>

NextAddr ==
    \/ \E a \in SampleAddrs : PrintAddress(a)
    \/ \E a \in SampleAddrs : DisplayAddress(a)
    \/ \E a \in SampleAddrs : SerializeAddress(a)
    \/ \E s \in SampleTexts : InputText(s)
    \/ \E b \in SampleBuffers : InputBytes(b)
    \/ ParseRelaxed
    \/ ParseStrict
    \/ ParseHexLiteral
    \/ ParseHex
    \/ DeserializeAddress
    \/ CallIsSpecial
    \/ Recanonicalize
    \/ CallFromBytes
    \/ CallTryFrom
    \/ CallToVec

SpecAddr == InitAddr /\ [][NextAddr]_vars

(***************************************************************************)
(* An AuthenticationKey being derived, converted, printed and parsed.      *)
(*   ak.op, ak.a1, ak.a2   the derivation called and its arguments         *)
(*   ak.hashed             the bytes from_preimage handed to the hash      *)
(*   ak.key                the key at hand                                 *)
(*   ak.b1, ak.b2, ak.hashed2, ak.key2   a second from_preimage call       *)
(*   ak.acc, ak.scheme, ak.authkey   an AccountAuthenticator, its scheme() *)
(*                         and its authentication_key()                    *)
(*   ak.addr, ak.back      account_address() of ak.key, and the key made   *)
(*                         of that address's bytes                         *)
(*   ak.buf, ak.tried, ak.vec   a byte buffer, try_from of it, to_vec()    *)
(*   ak.str, ak.via, ak.parsed  a text, where it is from, from_str of it   *)
(***************************************************************************)
\* preimages: short byte strings that end like a scheme byte, and key bytes
SamplePreimages ==
    {<<>>, <<0>>, <<1>>, <<1, 0>>, <<0, 1>>, <<250>>}
        \cup {PublicKeyBytes(pk) : pk \in PublicKeys}

\* txn_hash and auid_counter arguments of auid (counters below 2^31)
SampleTxnHashes == {<<>>, Sha3_256Of(<<7>>)}
SampleCounters == {0, 1, 258, 16909060}

SampleObjAddrs == {AddrLow(0), AddrLow(1), AddrHigh(171)}

KeyStart ==
    [phase |-> "start", op |-> "-", a1 |-> 0, a2 |-> 0, hashed |-> None,
     key |-> None, b1 |-> 0, b2 |-> 0, hashed2 |-> None, key2 |-> None,
     acc |-> None, scheme |-> None, authkey |-> None,
     addr |-> None, back |-> None,
     buf |-> <<>>, tried |-> None, vec |-> None,
     str |-> <<>>, via |-> "-", parsed |-> None]

InitKey == ObjInit /\ ConcIdle /\ SigIdle /\ AddrIdle /\ ak = KeyStart

CallEd25519(public_key) ==
    /\ ak.phase = "start"
    /\ ak' = [KeyStart EXCEPT !.phase = "key", !.op = "ed25519",
                              !.a1 = public_key,
                              !.key = Some(AuthKeyEd25519(public_key))]
    /\ UNCHANGED <<objVars, concVars, sg, ad>>

CallAuid(txn_hash, auid_counter) ==
    /\ ak.phase = "start"
    /\ ak' = [KeyStart EXCEPT !.phase = "key", !.op = "auid",
                              !.a1 = txn_hash, !.a2 = auid_counter,
                              !.key = Some(Auid(txn_hash, auid_counter))]
    /\ UNCHANGED <<objVars, concVars, sg, ad>>

CallObjectAddressFromObject(source, derive_from) ==
    /\ ak.phase = "start"
    /\ ak' = [KeyStart EXCEPT
                !.phase = "key", !.op = "object_address_from_object",
                !.a1 = source, !.a2 = derive_from,
                !.key = Some(ObjectAddressFromObject(source, derive_from))]
    /\ UNCHANGED <<objVars, concVars, sg, ad>>

CallFromPreimage(bytes, scheme) ==
    /\ ak.phase = "start"
    /\ ak' = [KeyStart EXCEPT !.phase = "key", !.op = "from_preimage",
                              !.a1 = bytes, !.a2 = scheme,
                              !.hashed = Some(PushScheme(bytes, scheme)),
                              !.key = Some(FromPreimage(bytes, scheme))]
    /\ UNCHANGED <<objVars, concVars, sg, ad>>

\* from_preimage is called once more, on any preimage and scheme
CallFromPreimageAgain(bytes, scheme) ==
    /\ ak.phase = "key"
    /\ ak.op = "from_preimage"
    /\ ak.key2 = None
    /\ ak.addr = None /\ ak.via = "-"
    /\ ak' = [ak EXCEPT !.b1 = bytes, !.b2 = scheme,
                        !.hashed2 = Some(PushScheme(bytes, scheme)),
                        !.key2 = Some(FromPreimage(bytes, scheme))]
    /\ UNCHANGED <<objVars, concVars, sg, ad>>

CallZero ==
    /\ ak.phase = "start"
    /\ ak' = [KeyStart EXCEPT !.phase = "key", !.op = "zero",
                              !.key = Some(AuthenticationKeyZero)]
    /\ UNCHANGED <<objVars, concVars, sg, ad>>

\* TransactionAuthenticator::ed25519(..).sender()
CallSender(public_key, signature) ==
    /\ ak.phase = "start"
    /\ ak' = [KeyStart EXCEPT
                !.phase = "sender", !.op = "sender",
                !.a1 = public_key, !.a2 = signature,
                !.acc = Some(Sender(TransactionAuthenticatorEd25519(
                                        public_key, signature)))]
    /\ UNCHANGED <<objVars, concVars, sg, ad>>

TakeNoAccountAuthenticator ==
    /\ ak.phase = "start"
    /\ ak' = [KeyStart EXCEPT !.phase = "sender",
                              !.op = "NoAccountAuthenticator",
                              !.acc = Some(NoAccountAuthenticator)]
    /\ UNCHANGED <<objVars, concVars, sg, ad>>

CallScheme ==
    /\ ak.phase = "sender"
    /\ ak.scheme = None
    /\ ak' = [ak EXCEPT !.scheme = Some(AccScheme(Unwrap(ak.acc)))]
    /\ UNCHANGED <<objVars, concVars, sg, ad>>

\* authentication_key() returns an Option: ak.authkey holds that Option
CallAuthenticationKey ==
    /\ ak.phase = "sender"
    /\ ak.authkey = None
    /\ ak' = [ak EXCEPT !.authkey = Some(AuthenticationKeyOf(Unwrap(ak.acc)))]
    /\ UNCHANGED <<objVars, concVars, sg, ad>>

CallAccountAddress ==
    /\ IsSome(ak.key)
    /\ ak.key2 = None
    /\ ak.addr = None
    /\ ak' = [ak EXCEPT !.addr = Some(AccountAddressOf(Unwrap(ak.key)))]
    /\ UNCHANGED <<objVars, concVars, sg, ad>>

\* AuthenticationKey::new(address.into_bytes())
CallNewFromAddress ==
    /\ IsSome(ak.addr)
    /\ ak.back = None
    /\ ak' = [ak EXCEPT !.back = Some(AuthenticationKeyNew(Unwrap(ak.addr)))]
    /\ UNCHANGED <<objVars, concVars, sg, ad>>

InputKeyBytes(b) ==
    /\ ak.phase = "start"
    /\ ak' = [KeyStart EXCEPT !.phase = "bytes", !.op = "try_from", !.buf = b]
    /\ UNCHANGED <<objVars, concVars, sg, ad>>

CallKeyTryFrom ==
    /\ ak.phase = "bytes"
    /\ ak.tried = None
    /\ LET r == AuthKeyTryFrom(ak.buf)
       IN  ak' = [ak EXCEPT !.tried = Some(r),
                            !.key = IF r.ok THEN Some(OkVal(r)) ELSE None]
    /\ UNCHANGED <<objVars, concVars, sg, ad>>

CallKeyToVec ==
    /\ ak.phase = "bytes"
    /\ IsSome(ak.key)
    /\ ak.vec = None
    /\ ak' = [ak EXCEPT !.vec = Some(AuthKeyToVec(Unwrap(ak.key)))]
    /\ UNCHANGED <<objVars, concVars, sg, ad>>

\* the key is printed by Display ({} / to_string)
DisplayKey ==
    /\ IsSome(ak.key)
    /\ ak.key2 = None
    /\ ak.via = "-"
    /\ ak' = [ak EXCEPT !.str = AuthKeyDisplay(Unwrap(ak.key)),
                        !.via = "Display"]
    /\ UNCHANGED <<objVars, concVars, sg, ad>>

\* the 64 hex digits of the key arrive as text, with or without "0x"
InputKeyText(prefixed) ==
    /\ IsSome(ak.key)
    /\ ak.key2 = None
    /\ ak.via = "-"
    /\ ak' = [ak EXCEPT !.str = (IF prefixed THEN <<"0", "x">> ELSE <<>>)
                                   \o HexEncode(Unwrap(ak.key).key),
                        !.via = IF prefixed THEN "prefixed" ELSE "bare"]
    /\ UNCHANGED <<objVars, concVars, sg, ad>>

ParseKey ==
    /\ ak.via # "-"
    /\ ak.parsed = None
    /\ ak' = [ak EXCEPT !.parsed = Some(AuthKeyFromStr(ak.str))]
    /\ UNCHANGED <<objVars, concVars, sg, ad>>

NextKey ==
    \/ \E pk \in PublicKeys : CallEd25519(pk)
    \/ \E h \in SampleTxnHashes, c \in SampleCounters : CallAuid(h, c)
    \/ \E src \in SampleObjAddrs, dst \in SampleObjAddrs :
          CallObjectAddressFromObject(src, dst)
    \/ \E p \in SamplePreimages, s \in Schemes : CallFromPreimage(p, s)
    \/ \E p \in SamplePreimages, s \in Schemes : CallFromPreimageAgain(p, s)
    \/ CallZero
    \/ \E pk \in PublicKeys, sig \in Signatures : CallSender(pk, sig)
    \/ TakeNoAccountAuthenticator
    \/ CallScheme
    \/ CallAuthenticationKey
    \/ CallAccountAddress
    \/ CallNewFromAddress
    \/ \E b \in SampleBuffers : InputKeyBytes(b)
    \/ CallKeyTryFrom
    \/ CallKeyToVec
    \/ DisplayKey
    \/ \E prefixed \in BOOLEAN : InputKeyText(prefixed)
    \/ ParseKey

SpecKey == InitKey /\ [][NextKey]_vars

(***************************************************************************)
(* Properties of the SignedTransaction operations.                         *)
(***************************************************************************)
\* the Ed25519 capability accepts t's signature for t's raw transaction
ValidSignature(t) ==
    Ed25519Verify(t.authenticator.signature, SigningMessage(t.raw_txn),
                  t.authenticator.public_key).ok

SameContents(a, b) ==
    a.raw_txn = b.raw_txn /\ a.authenticator = b.authenticator

\* C1: every SignatureCheckedTransaction wraps a transaction whose signature
\* verifies; check_signature on a verifying transaction returns Ok wrapping
\* exactly that transaction, and on any other it returns the verification
\* error and leaves no SignatureCheckedTransaction behind.
C1_CheckedOnlyByVerification ==
    /\ \A i \in Objs : objs[i].status = "checked" => ValidSignature(objs[i].txn)
    /\ last.op = "check_signature" =>
          IF ValidSignature(last.arg)
          THEN /\ last.ret.ok
               /\ SameContents(OkVal(last.ret), last.arg)
               /\ objs[last.obj].status = "checked"
               /\ SameContents(objs[last.obj].txn, last.arg)
          ELSE /\ ~last.ret.ok
               /\ last.ret = Ed25519Verify(last.arg.authenticator.signature,
                                           SigningMessage(last.arg.raw_txn),
                                           last.arg.authenticator.public_key)
               /\ objs[last.obj].status # "checked"

C1_Witness ==
    /\ last.op = "check_signature"
    /\ last.ret.ok
    /\ objs[last.obj].status = "checked"

\* C2: verify_signature succeeds on a transaction exactly when check_signature
\* succeeds on it.
C2_VerifyIffCheck ==
    /\ last.op = "verify_signature" =>
          (last.ret.ok <=> CheckSignature(last.arg).ok)
    /\ last.op = "check_signature" =>
          (last.ret.ok <=> VerifySignature(last.arg).ok)

C2_Witness ==
    /\ last.op = "check_signature"
    /\ ~last.ret.ok
    /\ ~VerifySignature(last.arg).ok

\* C5: the signatures of a constructed TransactionAuthenticator, summed over
\* the AccountAuthenticators it embeds, never exceed MAX_NUM_OF_SIGS; an
\* Ed25519 AccountAuthenticator counts 1 and NoAccountAuthenticator 0.
C5_SignatureCountBounded ==
    /\ NumberOfSignatures(NoAccountAuthenticator) = 0
    /\ \A i \in Objs :
          Live(i) =>
             /\ TotalSignatures(objs[i].txn.authenticator) <= MAX_NUM_OF_SIGS
             /\ Sender(objs[i].txn.authenticator).variant = "Ed25519"
             /\ NumberOfSignatures(Sender(objs[i].txn.authenticator)) = 1

C5_Witness ==
    \E i \in Objs :
        Live(i) /\ TotalSignatures(objs[i].txn.authenticator) = 1

\* C6: raw_txn_bytes_len returns the serialized length of raw_txn and
\* txn_bytes_len that length plus the serialized length of the authenticator,
\* on the first call and on every later one, whatever was called in between.
C6_BytesLen ==
    /\ last.op = "raw_txn_bytes_len" =>
          /\ last.ret = SerializedSizeRaw(last.arg.raw_txn)
          /\ IsSome(last.arg.raw_txn_size) =>
                last.ret = Unwrap(last.arg.raw_txn_size)
    /\ last.op = "txn_bytes_len" =>
          last.ret = SerializedSizeRaw(last.arg.raw_txn)
                       + SerializedSizeAuthenticator(last.arg.authenticator)
    /\ \A i \in Objs :
          /\ IsSome(objs[i].txn.raw_txn_size) =>
                Unwrap(objs[i].txn.raw_txn_size)
                   = SerializedSizeRaw(objs[i].txn.raw_txn)
          /\ IsSome(objs[i].txn.authenticator_size) =>
                Unwrap(objs[i].txn.authenticator_size)
                   = SerializedSizeAuthenticator(objs[i].txn.authenticator)

\* a repeated txn_bytes_len, with committed_hash called in between
C6_Witness ==
    /\ last.op = "txn_bytes_len"
    /\ IsSome(last.arg.raw_txn_size)
    /\ IsSome(last.arg.authenticator_size)
    /\ IsSome(last.arg.committed_hash)
    /\ last.arg.raw_txn.payload.variant = "Script"

\* C7: two SignedTransactions are equal exactly when their raw_txn and their
\* authenticator are equal, whichever caches either has populated.
C7_EqIgnoresCaches ==
    last.op = "eq" =>
       (last.ret <=> SameContents(objs[last.obj].txn, objs[last.other].txn))

C7_Witness ==
    /\ last.op = "eq"
    /\ last.ret
    /\ last.obj # last.other
    /\ objs[last.obj].txn # objs[last.other].txn

\* C9: committed_hash is the hash of Transaction::UserTransaction(self), not
\* the hash of raw_txn; it depends on raw_txn and authenticator only, so it
\* is the same on every call, with or without populated size caches, and
\* equal SignedTransactions have equal committed hashes.
C9_CommittedHash ==
    /\ last.op = "committed_hash" =>
          /\ last.ret =
                CryptoHash("Transaction",
                           <<0, <<SerializeRaw(last.arg.raw_txn),
                                  SerializeAuthenticator(last.arg.authenticator)>>>>)
          /\ last.ret # CryptoHash("RawTransaction",
                                   SerializeRaw(last.arg.raw_txn))
          /\ IsSome(last.arg.committed_hash) =>
                last.ret = Unwrap(last.arg.committed_hash)
    /\ \A i \in Objs, j \in Objs :
          (/\ SameContents(objs[i].txn, objs[j].txn)
           /\ IsSome(objs[i].txn.committed_hash)
           /\ IsSome(objs[j].txn.committed_hash))
             => objs[i].txn.committed_hash = objs[j].txn.committed_hash

\* two equal transactions hashed, one with and one without its size caches
C9_Witness ==
    /\ last.op = "committed_hash"
    /\ \E j \in Objs :
          /\ j # last.obj
          /\ Live(j)
          /\ SameContents(objs[j].txn, objs[last.obj].txn)
          /\ IsSome(objs[j].txn.committed_hash)
          /\ IsSome(objs[j].txn.raw_txn_size)
          /\ ~IsSome(objs[last.obj].txn.raw_txn_size)

(***************************************************************************)
(* Properties of the shared SignedTransaction.                             *)
(***************************************************************************)
\* what a call of op returns on a fresh, unshared copy of t
SingleThreaded(op, t) ==
    LET fresh == NewSignedTransaction(t.raw_txn, t.authenticator)
    IN  CASE op = "raw_txn_bytes_len" -> RawTxnBytesLen(fresh).ret
          [] op = "txn_bytes_len" -> TxnBytesLen(fresh).ret
          [] op = "committed_hash" -> CommittedHash(fresh).ret

\* C8: when threads race on the first calls of the caching accessors of one
\* SignedTransaction, every cell is written at most once and every call
\* returns what a single-threaded call returns, so all callers of one
\* accessor agree.
C8_RacingFirstCalls ==
    /\ \A s \in Slots : writes[s] <= 1
    /\ \A s \in Slots : IsSome(shared[s]) => writes[s] = 1
    /\ \A t \in Threads :
          thr[t].pc = "done" =>
             thr[t].ret = Some(SingleThreaded(thr[t].op, shared))
    /\ \A t \in Threads, u \in Threads :
          (thr[t].pc = "done" /\ thr[u].pc = "done" /\ thr[t].op = thr[u].op)
             => thr[t].ret = thr[u].ret

\* two threads raced on committed_hash: one initialized, the other waited
C8_Witness ==
    \E t \in Threads, u \in Threads :
       /\ t # u
       /\ thr[t].pc = "done" /\ thr[u].pc = "done"
       /\ thr[t].op = "committed_hash" /\ thr[u].op = "committed_hash"
       /\ thr[u].waited /\ ~thr[t].waited
       /\ writes["committed_hash"] = 1

(***************************************************************************)
(* Properties of signing and verification.                                 *)
(***************************************************************************)
\* C3: verify_signature of SignedTransaction::new(raw_txn, public_key,
\* signature) succeeds when signature is the signature of raw_txn under the
\* private key of public_key, and fails when the signature, the public key
\* or one field of raw_txn was changed after signing.
C3_VerifyAfterSigning ==
    sg.phase = "verified" =>
       /\ sg.sig = Ed25519Sign(sg.pk.pk, SigningMessage(sg.raw))
             => Unwrap(sg.result).ok
       /\ sg.changes = 0 => Unwrap(sg.result).ok
       /\ sg.changes = 1 => ~Unwrap(sg.result).ok

\* a transaction verified after one of its u64 fields was changed
C3_Witness ==
    /\ sg.phase = "verified"
    /\ sg.changes = 1
    /\ sg.sig.signer = sg.pk.pk
    /\ sg.raw.gas_unit_price # sg.sig.msg.bytes[5]
    /\ ~Unwrap(sg.result).ok

(***************************************************************************)
(* Properties of the AccountAddress codec.                                 *)
(***************************************************************************)
\* C10: the canonical string of every address is parsed back to that address
\* by from_str and by from_str_strict; so printing the address parsed from a
\* canonical string gives that canonical string again.
C10_CanonicalRoundTrip ==
    /\ (IsSome(ad.src) /\ IsSome(ad.relaxed))
          => Unwrap(ad.relaxed) = Ok(Unwrap(ad.src))
    /\ (IsSome(ad.src) /\ IsSome(ad.strict))
          => Unwrap(ad.strict) = Ok(Unwrap(ad.src))
    /\ IsSome(ad.prev) => ad.str = Unwrap(ad.prev)

\* a non-special address that came in as a short text, canonicalized twice and
\* parsed by both parsers
C10_Witness ==
    /\ IsSome(ad.prev)
    /\ IsSome(ad.relaxed)
    /\ IsSome(ad.strict)
    /\ ~IsSpecial(Unwrap(ad.src))
    /\ Len(ad.str) = 2 * LENGTH + 2

\* the text begins with the two characters "0x"
HasPrefix(s) == Len(s) >= 2 /\ SubSeq(s, 1, 2) = <<"0", "x">>

\* the text after the optional "0x"
Body(s) == IF HasPrefix(s) THEN SubSeq(s, 3, Len(s)) ELSE s

HexDigits ==
    {LowerHexChars[i] : i \in 1..16} \cup {UpperHexChars[i] : i \in 1..16}

AllHex(h) == \A i \in 1..Len(h) : h[i] \in HexDigits

\* the 32-byte value whose 64-digit hex form is h padded on the left with '0'
PaddedValue(h) ==
    LET pad == 2 * LENGTH - Len(h)
        digit(p) == IF p <= pad THEN 0 ELSE HexVal(h[p - pad])
    IN  [i \in 1..LENGTH |-> digit(2 * i - 1) * 16 + digit(2 * i)]

\* every digit of h but the last is '0': the value of h is below 16
AllButLastZero(h) == \A i \in 1..(Len(h) - 1) : h[i] = "0"

\* C11: from_str_strict on an optional "0x" and 1 to 64 hex digits: without
\* the prefix it fails with LeadingZeroXRequired; "0x" and 64 digits succeed
\* with the value of the digits; "0x" and one digit succeed with the special
\* address of that value; "0x" and 2 to 63 digits fail, with
\* InvalidPaddingZeroes when the value is special and with
\* LongFormRequiredUnlessSpecial when it is not.
C11_StrictClassification ==
    (IsSome(ad.strict) /\ AllHex(Body(ad.str)) /\ Len(Body(ad.str)) \in 1..64)
    => LET h == Body(ad.str)
           r == Unwrap(ad.strict)
       IN  IF ~HasPrefix(ad.str) THEN r = Err("LeadingZeroXRequired")
           ELSE IF Len(h) = 2 * LENGTH THEN r = Ok(PaddedValue(h))
           ELSE IF Len(h) = 1 THEN r = Ok(AddrLow(HexVal(h[1])))
           ELSE IF AllButLastZero(h) THEN r = Err("InvalidPaddingZeroes")
           ELSE r = Err("LongFormRequiredUnlessSpecial")

\* "0x" and 2 to 63 digits of a special value, parsed strictly
C11_Witness ==
    /\ ad.via = "input"
    /\ IsSome(ad.strict)
    /\ HasPrefix(ad.str)
    /\ Len(Body(ad.str)) \in 2..63
    /\ AllHex(Body(ad.str))
    /\ AllButLastZero(Body(ad.str))
    /\ Unwrap(ad.strict) = Err("InvalidPaddingZeroes")

\* C12: from_str on h and on "0x" followed by h, h being 1 to 64 hex digits,
\* succeeds with the value of h padded on the left with '0' (so the two agree);
\* the empty text and the bare "0x" fail with TooShort; a text with a character
\* that is not a hex digit after the optional prefix fails with
\* InvalidHexChars.
C12_RelaxedParsing ==
    IsSome(ad.relaxed)
    => LET h == Body(ad.str)
           r == Unwrap(ad.relaxed)
       IN  /\ (AllHex(h) /\ Len(h) \in 1..64) => r = Ok(PaddedValue(h))
           /\ h = <<>> => r = Err("TooShort")
           /\ ~AllHex(h) => r = Err("InvalidHexChars")

\* a short text of mixed-case digits without the prefix, parsed to an address
\* that is not special
C12_Witness ==
    /\ ad.via = "input"
    /\ IsSome(ad.relaxed)
    /\ ~HasPrefix(ad.str)
    /\ Len(ad.str) = 3
    /\ ad.str[2] = "F"
    /\ Unwrap(ad.relaxed).ok
    /\ OkVal(Unwrap(ad.relaxed))[LENGTH] >= 16

\* the text "abc"
TextAbc == <<"a", "b", "c">>

\* C13 as stated: from_str("abc") fails with a parse error.
C13_AbcFails ==
    (IsSome(ad.relaxed) /\ ad.str = TextAbc) => ~Unwrap(ad.relaxed).ok

\* C13, amended: from_str("abc") succeeds and returns the address whose last
\* two bytes are 0x0a and 0xbc and whose other bytes are zero.
C13_AbcParses ==
    (IsSome(ad.relaxed) /\ ad.str = TextAbc)
    => Unwrap(ad.relaxed) =
          Ok([i \in 1..LENGTH |-> IF i = LENGTH - 1 THEN 10
                                  ELSE IF i = LENGTH THEN 188 ELSE 0])

\* "abc" came in and was parsed by from_str
C13_Witness ==
    /\ ad.via = "input"
    /\ ad.str = TextAbc
    /\ IsSome(ad.relaxed)

\* C14 as stated: the human-readable serialization of an address is its
\* standard string (to_standard_string), and human-readable deserialization of
\* that output returns the same address.
C14_SerializedIsStandard ==
    IsSome(ad.ser)
    => /\ ad.str = ToStandardString(Unwrap(ad.ser))
       /\ IsSome(ad.de) => Unwrap(ad.de) = Ok(Unwrap(ad.ser))

\* the sixteen addresses 0x0 .. 0xf
SixteenSpecial == {AddrLow(b) : b \in 0..15}

\* C15: the standard string of a special address is "0x" and one lowercase
\* hex digit, its value; that of any other address is "0x" and the 64 lowercase
\* hex digits of its bytes in order; Display prints the same string.
C15_StandardStringForm ==
    IsSome(ad.src)
    => LET a == Unwrap(ad.src)
           s == ad.str
       IN  /\ Len(s) >= 2 /\ s[1] = "0" /\ s[2] = "x"
           /\ IF a \in SixteenSpecial
              THEN Len(s) = 3 /\ s[3] = LowerHexChars[a[LENGTH] + 1]
              ELSE /\ Len(s) = 2 * LENGTH + 2
                   /\ \A i \in 1..LENGTH :
                        /\ s[2 * i + 1] = LowerHexChars[(a[i] \div 16) + 1]
                        /\ s[2 * i + 2] = LowerHexChars[(a[i] % 16) + 1]

\* Display printed an address whose first byte is not zero
C15_Witness ==
    /\ ad.via = "Display"
    /\ IsSome(ad.src)
    /\ Unwrap(ad.src)[1] = 255
    /\ Len(ad.str) = 2 * LENGTH + 2

\* C16: is_special(a) is true exactly for the sixteen addresses 0x0 .. 0xf:
\* the first 31 bytes zero and the last byte below 16.
C16_SpecialIffBelow16 ==
    IsSome(ad.special)
    => (Unwrap(ad.special) <=> Unwrap(ad.src) \in SixteenSpecial)

\* is_special was called on 0x10 and returned false
C16_Witness ==
    /\ IsSome(ad.special)
    /\ ad.src = Some(AddrLow(16))
    /\ ~Unwrap(ad.special)

\* the variants of AccountAddressParseError
ParseErrors ==
    {"IncorrectNumberOfBytes", "InvalidHexChars", "TooShort", "TooLong",
     "LeadingZeroXRequired", "LongFormRequiredUnlessSpecial",
     "InvalidPaddingZeroes"}

\* the call returned: Ok with a 32-byte address, or Err with a typed error
Returned(o) ==
    IsSome(o)
    => LET r == Unwrap(o)
       IN  IF r.ok THEN OkVal(r) \in [1..LENGTH -> Byte]
           ELSE r.err \in ParseErrors

\* C17: from_str, from_str_strict, from_hex_literal, from_hex and from_bytes
\* return Ok(address) or a typed AccountAddressParseError on every input
\* (empty, bare "0x", over-long, odd length, non-hex, non-ASCII); none panics.
C17_ParsersTotal ==
    /\ Returned(ad.relaxed)
    /\ Returned(ad.strict)
    /\ Returned(ad.literal)
    /\ Returned(ad.hex)
    /\ Returned(ad.frombytes)

\* "0x" and a two-byte character went through the four text parsers
C17_Witness ==
    /\ ad.via = "input"
    /\ HasPrefix(ad.str)
    /\ Len(ad.str) = 4
    /\ ad.str[3] \in LeadBytes
    /\ IsSome(ad.relaxed) /\ IsSome(ad.strict)
    /\ IsSome(ad.literal) /\ IsSome(ad.hex)
    /\ ~Unwrap(ad.literal).ok

\* C18 as stated: a text with more than 64 hex digits after the optional "0x"
\* fails to parse with AccountAddressParseError::TooLong.
C18_OverLongIsTooLong ==
    (AllHex(Body(ad.str)) /\ Len(Body(ad.str)) > 2 * LENGTH)
    => /\ IsSome(ad.relaxed) => Unwrap(ad.relaxed) = Err("TooLong")
       /\ (IsSome(ad.strict) /\ HasPrefix(ad.str))
             => Unwrap(ad.strict) = Err("TooLong")
       /\ (IsSome(ad.literal) /\ HasPrefix(ad.str))
             => Unwrap(ad.literal) = Err("TooLong")

\* C19 as stated: from_bytes and try_from on a buffer whose length is not 32
\* fail with AccountAddressParseError::IncorrectNumberOfBytes.
C19_WrongLengthIsIncorrectNumberOfBytes ==
    (IsSome(ad.frombytes) /\ Len(ad.buf) # LENGTH)
    => Unwrap(ad.frombytes) = Err("IncorrectNumberOfBytes")

\* C20: from_bytes of a buffer of 32 bytes succeeds, and to_vec() of the
\* address it returns is the buffer.
C20_FromBytesRoundTrip ==
    (IsSome(ad.frombytes) /\ Len(ad.buf) = LENGTH)
    => /\ Unwrap(ad.frombytes).ok
       /\ IsSome(ad.vec) => Unwrap(ad.vec) = ad.buf

\* a buffer of 32 different bytes became an address and then a vector again
C20_Witness ==
    /\ ad.phase = "bytes"
    /\ Len(ad.buf) = LENGTH
    /\ ad.buf[1] # ad.buf[LENGTH]
    /\ ad.buf[2] # 0
    /\ IsSome(ad.vec)

(***************************************************************************)
(* Properties of the AuthenticationKey derivation and conversions.         *)
(***************************************************************************)
\* the one-byte discriminant of each scheme
Discriminant ==
    [Ed25519 |-> 0, MultiEd25519 |-> 1, SingleKey |-> 2, MultiKey |-> 3,
     NoScheme |-> 250, DeriveAuid |-> 251,
     DeriveObjectAddressFromObject |-> 252,
     DeriveObjectAddressFromGuid |-> 253,
     DeriveObjectAddressFromSeed |-> 254,
     DeriveResourceAccountAddress |-> 255]

\* the 8 little-endian bytes of a counter below 2^31
LittleEndian8(n) ==
    [i \in 1..8 |-> IF i <= 4 THEN (n \div (256 ^ (i - 1))) % 256 ELSE 0]

\* the key whose bytes are the hash of the given input
KeyOfHash(input) == [key |-> Sha3_256Of(input)]

\* C21: every derivation is the hash of a preimage followed by one scheme
\* byte: ed25519(pk) hashes the key bytes and 0; auid(txn_hash, counter) hashes
\* txn_hash, the 8 little-endian bytes of counter and 251;
\* object_address_from_object(source, derive_from) hashes the two addresses
\* and 252; from_preimage(p, s) hashes p and the discriminant of s.
C21_DerivationRule ==
    (ak.phase = "key" /\ ak.op # "zero")
    => Unwrap(ak.key) =
          CASE ak.op = "ed25519" -> KeyOfHash(PublicKeyBytes(ak.a1) \o <<0>>)
            [] ak.op = "auid" ->
                 KeyOfHash(ak.a1 \o LittleEndian8(ak.a2) \o <<251>>)
            [] ak.op = "object_address_from_object" ->
                 KeyOfHash(ak.a1 \o ak.a2 \o <<252>>)
            [] ak.op = "from_preimage" ->
                 KeyOfHash(ak.a1 \o <<Discriminant[ak.a2]>>)

\* auid was called with a counter of two non-zero bytes
C21_Witness ==
    /\ ak.phase = "key"
    /\ ak.op = "auid"
    /\ ak.a2 = 258
    /\ Len(ak.a1) = 32
    /\ IsSome(ak.key)

\* C22: the bytes from_preimage hands to the hash determine the preimage and
\* the scheme (two different schemes never give the same hash input for the
\* same key bytes), and equal preimage and scheme give the same key.
C22_DomainSeparation ==
    IsSome(ak.key2)
    => /\ ak.hashed = ak.hashed2 => (ak.a1 = ak.b1 /\ ak.a2 = ak.b2)
       /\ (ak.a1 = ak.b1 /\ ak.a2 = ak.b2) => ak.key = ak.key2

\* the bytes of one public key derived under Ed25519 and under MultiEd25519
C22_Witness ==
    /\ IsSome(ak.key2)
    /\ ak.a1 = PublicKeyBytes(PublicKey(1))
    /\ ak.b1 = ak.a1
    /\ ak.a2 = "Ed25519"
    /\ ak.b2 = "MultiEd25519"
    /\ ak.hashed # ak.hashed2
    /\ ak.key = Some(AuthKeyEd25519(PublicKey(1)))

\* C23: for TransactionAuthenticator::Ed25519 {public_key, signature},
\* sender() is AccountAuthenticator::Ed25519 with the same public key and
\* signature, its scheme() is Scheme::Ed25519 and its authentication_key()
\* is Some(AuthenticationKey::ed25519(public_key)); for
\* NoAccountAuthenticator scheme() is NoScheme and authentication_key()
\* is None.
C23_SenderAuthenticator ==
    /\ ak.op = "sender" =>
          /\ Unwrap(ak.acc).variant = "Ed25519"
          /\ Unwrap(ak.acc).public_key = Some(ak.a1)
          /\ Unwrap(ak.acc).signature = Some(ak.a2)
          /\ IsSome(ak.scheme) => Unwrap(ak.scheme) = "Ed25519"
          /\ IsSome(ak.authkey) =>
                Unwrap(ak.authkey) = Some(AuthKeyEd25519(ak.a1))
    /\ ak.op = "NoAccountAuthenticator" =>
          /\ IsSome(ak.scheme) => Unwrap(ak.scheme) = "NoScheme"
          /\ IsSome(ak.authkey) => Unwrap(ak.authkey) = None

C23_Witness ==
    /\ ak.op = "sender"
    /\ ak.a1 = PublicKey(2)
    /\ ak.scheme = Some("Ed25519")
    /\ ak.authkey = Some(Some(AuthKeyEd25519(PublicKey(2))))

\* C24: the conversion between AuthenticationKey and AccountAddress is
\* total and lossless: account_address() keeps the 32 bytes, building a key
\* from the address bytes gives the key back, and zero() maps to
\* AccountAddress::ZERO.
C24_AddressConversion ==
    /\ IsSome(ak.addr) =>
          /\ Unwrap(ak.addr) \in [1..LENGTH -> 0..255]
          /\ \A i \in 1..LENGTH : Unwrap(ak.addr)[i] = Unwrap(ak.key).key[i]
          /\ ak.op = "zero" => Unwrap(ak.addr) = AddrLow(0)
    /\ IsSome(ak.back) => ak.back = ak.key

C24_Witness ==
    /\ ak.op = "ed25519"
    /\ IsSome(ak.back)
    /\ Unwrap(ak.addr) # AddrLow(0)

\* C25: AuthenticationKey::try_from(bytes) returns WrongLengthError exactly
\* when the length is not 32, and otherwise a key whose to_vec() is bytes.
C25_TryFromLength ==
    /\ IsSome(ak.tried) =>
          /\ Len(ak.buf) # LENGTH <=>
                (~Unwrap(ak.tried).ok
                    /\ Unwrap(ak.tried).err = "WrongLengthError")
          /\ Len(ak.buf) = LENGTH <=> Unwrap(ak.tried).ok
    /\ (ak.phase = "bytes" /\ IsSome(ak.vec)) => Unwrap(ak.vec) = ak.buf

C25_Witness ==
    /\ ak.phase = "bytes"
    /\ Len(ak.buf) = LENGTH
    /\ ak.vec = Some(ak.buf)

\* C26: the Display form of an AuthenticationKey is "0x" followed by 64
\* lowercase hex digits and from_str of it returns the key; from_str of the
\* same 64 digits without the prefix returns the key too.
C26_HexRoundTrip ==
    /\ ak.via = "Display" =>
          ak.str = <<"0", "x">> \o HexEncode(Unwrap(ak.key).key)
    /\ (ak.via \in {"Display", "prefixed", "bare"} /\ IsSome(ak.parsed)) =>
          Unwrap(ak.parsed) = Ok(Unwrap(ak.key))

\* the printed key was parsed
C26_Witness ==
    /\ ak.via = "Display"
    /\ ak.op = "ed25519"
    /\ IsSome(ak.parsed)

(***************************************************************************)
(* Properties of RawTransaction::signing_message.                          *)
(***************************************************************************)
\* C27: RawTransaction::signing_message returns, for every RawTransaction,
\* the byte sequence derived from its canonical serialization: the call
\* returns Ok (it never aborts) and equal RawTransactions give equal
\* messages.
C27_SigningMessageReturns ==
    IsSome(sg.message) =>
        LET call == Unwrap(sg.message)
        IN  /\ call.ret.ok
            /\ OkVal(call.ret) = SigningMessage(call.raw)

\* signing_message was called on a RawTransaction
C27_Witness == IsSome(sg.message)

(***************************************************************************)
(* Properties of the three caches of a SignedTransaction.                  *)
(***************************************************************************)
SlotsEmpty(t) == \A s \in Slots : t[s] = None

\* every populated slot of t holds the value computed from t's raw_txn and
\* authenticator
Coherent(t) ==
    /\ IsSome(t.raw_txn_size) =>
          Unwrap(t.raw_txn_size) = SerializedSizeRaw(t.raw_txn)
    /\ IsSome(t.authenticator_size) =>
          Unwrap(t.authenticator_size)
             = SerializedSizeAuthenticator(t.authenticator)
    /\ IsSome(t.committed_hash) =>
          Unwrap(t.committed_hash)
             = CryptoHash("Transaction",
                          <<0, <<SerializeRaw(t.raw_txn),
                                 SerializeAuthenticator(t.authenticator)>>>>)

\* the slots that are empty in old and populated in new
Populated(old, new) == {s \in Slots : old[s] = None /\ new[s] # None}

\* C28: new, new_signed_transaction and deserialization give a value with
\* three empty cache slots; over any sequence of operations a populated slot
\* never changes and raw_txn and authenticator never change; a populated
\* slot holds the value computed from raw_txn and authenticator; a clone
\* starts with the slots of its original.
C28_CacheCoherence ==
    /\ [](/\ \A i \in Objs : Live(i) => Coherent(objs[i].txn)
          /\ last.op \in {"new", "new_signed_transaction", "deserialize"} =>
                SlotsEmpty(objs[last.obj].txn))
    /\ [][/\ \A i \in Objs :
                (Live(i) /\ objs'[i].status # "free") =>
                   /\ SameContents(objs'[i].txn, objs[i].txn)
                   /\ \A s \in Slots :
                         IsSome(objs[i].txn[s]) =>
                            objs'[i].txn[s] = objs[i].txn[s]
          /\ last'.op \in {"clone", "clone_checked"} =>
                /\ SameContents(objs'[last'.obj].txn, objs[last'.other].txn)
                /\ \A s \in Slots :
                      objs'[last'.obj].txn[s] = objs[last'.other].txn[s]
                /\ objs'[last'.other] = objs[last'.other]]_vars

\* a clone that inherited three populated slots, and a value built by new
\* whose slots are empty next to it
C28_Witness ==
    /\ last.op = "clone"
    /\ \A s \in Slots : IsSome(objs[last.obj].txn[s])
    /\ objs[last.obj].txn = objs[last.other].txn
    /\ objs[last.obj].txn.raw_txn.payload.variant = "Script"

\* C29: raw_txn_bytes_len populates only raw_txn_size, txn_bytes_len only
\* authenticator_size and raw_txn_size, committed_hash only committed_hash;
\* verify_signature, check_signature and the field getters populate no
\* slot; none of them changes raw_txn or authenticator, or another value.
C29_Frame ==
    [][LET op == last'.op
           i == last'.obj
           old == objs[i].txn
           new == objs'[i].txn
       IN  op \in {"raw_txn_bytes_len", "txn_bytes_len", "committed_hash",
                   "verify_signature", "check_signature", "getter"} =>
              /\ \A j \in Objs \ {i} : objs'[j] = objs[j]
              /\ old = last'.arg
              /\ op = "raw_txn_bytes_len" =>
                    /\ Populated(old, new) \subseteq {"raw_txn_size"}
                    /\ IsSome(new.raw_txn_size)
              /\ op = "txn_bytes_len" =>
                    /\ Populated(old, new)
                          \subseteq {"authenticator_size", "raw_txn_size"}
                    /\ IsSome(new.authenticator_size)
                    /\ IsSome(new.raw_txn_size)
              /\ op = "committed_hash" =>
                    /\ Populated(old, new) \subseteq {"committed_hash"}
                    /\ IsSome(new.committed_hash)
              /\ op \in {"verify_signature", "getter"} => objs' = objs
              /\ op = "check_signature" =>
                    /\ objs'[i].status # "free" => new = old
                    /\ last'.ret.ok => OkVal(last'.ret) = old
              /\ objs'[i].status # "free" =>
                    /\ SameContents(new, old)
                    /\ \A s \in Slots : IsSome(old[s]) => new[s] = old[s]]_vars

\* a first txn_bytes_len on a value with three empty slots
C29_Witness ==
    /\ last.op = "txn_bytes_len"
    /\ SlotsEmpty(last.arg)
    /\ IsSome(objs[last.obj].txn.raw_txn_size)
    /\ IsSome(objs[last.obj].txn.authenticator_size)
    /\ objs[last.obj].txn.committed_hash = None

(***************************************************************************)
(* Termination of concurrent calls of the caching accessors.               *)
(***************************************************************************)
InitPcs(s) ==
    CASE s = "raw_txn_size" -> {"raw_init"}
      [] s = "authenticator_size" -> {"auth_init"}
      [] s = "committed_hash" -> {"hash_clone", "hash_store"}

WaitPc(s) ==
    CASE s = "raw_txn_size" -> "raw_wait"
      [] s = "authenticator_size" -> "auth_wait"
      [] s = "committed_hash" -> "hash_wait"

InCall(t) == thr[t].pc \notin {"idle", "done"}

\* C30: no initializer enters the initialization of a cache slot: a thread
\* initializes at most one slot at a time and holds no slot while it enters
\* or waits for one; a thread waits only for a slot that another thread is
\* initializing, so it is never blocked by work on a different slot, and a
\* thread that is not waiting can always take its next step; under a fair
\* scheduler every call eventually returns.
C30_CallsReturn ==
    /\ [](/\ \A s \in Slots :
                cells[s] # 0 =>
                   /\ thr[cells[s]].pc \in InitPcs(s)
                   /\ shared[s] = None
          /\ \A t \in Threads, s \in Slots :
                /\ thr[t].pc \in InitPcs(s) => cells[s] = t
                /\ thr[t].pc = WaitPc(s) =>
                      IsSome(shared[s]) \/ cells[s] \notin {0, t}
          /\ \A t \in Threads :
                (InCall(t) /\ thr[t].pc \notin {WaitPc(s) : s \in Slots}) =>
                   ENABLED ThreadStep(t))
    /\ \A t \in Threads : InCall(t) ~> (thr[t].pc = "done")

\* txn_bytes_len waited for raw_txn_size, which another thread's
\* raw_txn_bytes_len initialized, and has returned
C30_Witness ==
    \E t \in Threads, u \in Threads :
        /\ t # u
        /\ thr[t].op = "txn_bytes_len"
        /\ thr[t].pc = "done"
        /\ thr[t].waited
        /\ thr[u].op = "raw_txn_bytes_len"
        /\ thr[u].pc = "done"
        /\ ~thr[u].waited
=============================================================================
